---- MODULE Spec2Model ----
(***************************************************************************)
(* OpenCarbon: the allometric reference store with its first-run seeding,  *)
(* the nearest-neighbour carbon estimator, and the drone crown pipeline    *)
(* (pixel boxes -> map polygons -> metric CRS -> area/diameter -> carbon). *)
(*                                                                         *)
(* Units.  carbon_tonnes is kept in hundredths of a tonne (0.12 t = 12),   *)
(* crown_diameter_m and height_m in whole metres, geographic coordinates   *)
(* in whole degrees, projected coordinates in whole map units.             *)
(***************************************************************************)
EXTENDS Integers, Sequences, FiniteSets, TLC

\* ------------------------------------------------------------------ bounds
NumSessions == 2
MaxInitRows == 2
MaxDiameter == 6
MaxHeight == 10
MaxBoxes == 2

Sessions == 1..NumSessions

\* ------------------------------------------------- AllometricReference rows
Row(d, h, c) == [crown_diameter_m |-> d, height_m |-> h, carbon_tonnes |-> c]

\* database.py seed_defaults: the four default rows, in insertion order.
sample_rows ==
    << Row(2, 4, 3), Row(4, 8, 12), Row(6, 12, 35), Row(8, 16, 75) >>

\* Rows a database file found at start-up may hold (calibration imports):
\* the defaults, rows equidistant from (5,10) with (4,8), and a zero-carbon row.
RowPool ==
    { Row(2, 4, 3), Row(4, 8, 12), Row(6, 12, 35), Row(6, 8, 50), Row(3, 9, 0) }

RECURSIVE SeqsUpTo(_, _)
SeqsUpTo(S, n) ==
    IF n = 0 THEN { <<>> }
    ELSE LET shorter == SeqsUpTo(S, n - 1)
         IN  shorter \cup { Append(q, x) : q \in shorter, x \in S }

InitialStores == SeqsUpTo(RowPool, MaxInitRows) \cup { sample_rows }

\* ---------------------------------------------------------- coordinate data
\* A pyproj CRS as far as the pipeline looks at it.
CRSNone == [defined |-> FALSE, epsg |-> 0, is_geographic |-> FALSE]
CRSGeographic == [defined |-> TRUE, epsg |-> 4326, is_geographic |-> TRUE]
CRSProjected == [defined |-> TRUE, epsg |-> 26910, is_geographic |-> FALSE]
EPSG(code) == [defined |-> TRUE, epsg |-> code, is_geographic |-> FALSE]

\* rasterio Affine(a, b, c, d, e, f): x = a*col + b*row + c, y = d*col + e*row + f
Affine(a, b, c, d, e, f) == [a |-> a, b |-> b, c |-> c, d |-> d, e |-> e, f |-> f]

\* Upper-left corners (longitude, latitude, in degrees) of the geographic
\* rasters: the western edge of zone 1, Vancouver (zone 10), a raster across
\* the 120 W zone boundary, and two rasters at the antimeridian and across the
\* equator (longitudes 178..180 and 179..181, latitudes 1..-1).
GeographicOrigins ==
    { << -180, 50 >>, << -124, 50 >>, << -121, 50 >>, << 178, 1 >>, << 179, 1 >> }

\* The orthomosaics: no CRS; geographic north-up, one degree per pixel;
\* projected north-up, south-up and rotated by a quarter turn, 2 units per pixel.
Rasters ==
    { [crs |-> CRSNone, transform |-> Affine(2, 0, 100, 0, -2, 200)] }
    \cup { [crs |-> CRSGeographic, transform |-> Affine(1, 0, o[1], 0, -1, o[2])] :
             o \in GeographicOrigins }
    \cup { [crs |-> CRSProjected, transform |-> t] :
             t \in { Affine(2, 0, 100, 0, -2, 200),
                     Affine(2, 0, 100, 0, 2, 200),
                     Affine(0, 2, 100, 2, 0, 200) } }

\* One row of the DeepForest table, pixel coordinates.
Box(xmin, ymin, xmax, ymax) == [xmin |-> xmin, ymin |-> ymin, xmax |-> xmax, ymax |-> ymax]

\* Boxes the detector may return: four well-formed ones, one with xmin > xmax
\* and one with ymin > ymax.
BoxPool ==
    { Box(0, 0, 1, 1), Box(0, 0, 2, 2), Box(1, 1, 2, 2), Box(1, 0, 2, 1),
      Box(2, 0, 1, 1), Box(0, 2, 1, 1) }

\* predict_file's return value: None, or a table of boxes (possibly empty);
\* `assigned` is false while the local detections_df is not yet bound.
Unassigned == [assigned |-> FALSE, is_none |-> FALSE, rows |-> <<>>]
DetectionsNone == [assigned |-> TRUE, is_none |-> TRUE, rows |-> <<>>]
Detections(rows) == [assigned |-> TRUE, is_none |-> FALSE, rows |-> rows]
DetectorOutputs == { DetectionsNone } \cup { Detections(q) : q \in SeqsUpTo(BoxPool, MaxBoxes) }

\* A height cell of a crown row: missing column / None, NaN, or a float.
HNone == [kind |-> "None", v |-> 0]
HNaN == [kind |-> "nan", v |-> 0]
HFloat(h) == [kind |-> "float", v |-> h]
\* zonal_stats "max" per polygon: None when no valid pixel, else the maximum.
ZonalMax == { HNone, HFloat(0), HFloat(7) }

VARIABLES
    store,      \* rows of table allometric_reference, in rowid order
    store0,     \* the table as found when the program started
    sess,       \* per session: position inside seed_defaults and its `exists`
    est,        \* the last estimate_carbon_tonnes call: query, rows read, result
    log,        \* warnings emitted by the estimator
    raster,     \* the uploaded orthomosaic: its CRS and affine transform
    pc,         \* position of the drone page run
    crs,        \* detect_tree_crowns_from_orthomosaic: local crs
    detections_df, \* local detections_df
    polygons,   \* local polygons (source CRS)
    crowns,     \* local crowns: the rows of the GeoDataFrame
    crowns_crs, \* crowns.crs
    utm,        \* utm_zone / utm_epsg and the centroid they were derived from
    result,     \* the DroneDetectionResult returned
    error,      \* the exception that ended the run, "" if none
    calls       \* estimator calls made by drone_upload_page, in row order

storeVars == << store, store0, sess, est, log >>
droneVars == << raster, pc, crs, detections_df, polygons, crowns, crowns_crs, utm,
                result, error, calls >>
vars == << store, store0, sess, est, log, raster, pc, crs, detections_df, polygons,
           crowns, crowns_crs, utm, result, error, calls >>

\* ------------------------------------------------------------ calculator.py
\* distance_expr: pow(ref.d - d, 2) + pow(ref.h - h, 2)
DistanceDiameterOnly(ref, d, h) ==
    (ref.crown_diameter_m - d) * (ref.crown_diameter_m - d)

Distance(ref, d, h) ==
    (ref.crown_diameter_m - d) * (ref.crown_diameter_m - d)
        + (ref.height_m - h) * (ref.height_m - h)

RECURSIVE InsertByDistance(_, _, _, _)
InsertByDistance(r, sorted, d, h) ==
    IF sorted = <<>> THEN << r >>
    ELSE IF Distance(r, d, h) < Distance(Head(sorted), d, h)
         THEN << r >> \o sorted
         ELSE << Head(sorted) >> \o InsertByDistance(r, Tail(sorted), d, h)

\* .order_by(distance_expr.asc())
RECURSIVE OrderByDistance(_, _, _)
OrderByDistance(rows, d, h) ==
    IF rows = <<>> THEN <<>>
    ELSE InsertByDistance(Head(rows), OrderByDistance(Tail(rows), d, h), d, h)

\* .limit(1) / scalar_one_or_none(): the rows the statement may return.  SQL
\* leaves the order among equal sort keys open, so any row whose key equals
\* the key of the first sorted row may come first.
FirstRows(rows, d, h) ==
    LET sorted == OrderByDistance(rows, d, h)
    IN  { sorted[i] : i \in { j \in 1..Len(sorted) :
                                Distance(sorted[j], d, h) = Distance(sorted[1], d, h) } }

NoEstimate == [called |-> FALSE, d |-> 0, h |-> 0, rows |-> <<>>, result |-> 0]

\* Calculator.estimate_carbon_tonnes(d, h) against the current table.
EstimateResults(rows, d, h) ==
    IF rows = <<>> THEN { 0 }
    ELSE { r.carbon_tonnes : r \in FirstRows(rows, d, h) }

estimate_carbon_tonnes(d, h) ==
    /\ \E c \in EstimateResults(store, d, h) :
          est' = [called |-> TRUE, d |-> d, h |-> h, rows |-> store, result |-> c]
    /\ UNCHANGED << store, store0, sess, log, droneVars >>

\* -------------------------------------------------------------- database.py
\* seed_defaults, line 39: exists = session.query(AllometricReference).first()
SeedQuery(s) ==
    /\ sess[s].pc = "idle"
    /\ sess' = [sess EXCEPT ![s] = [pc |-> "queried", exists |-> store # <<>>]]
    /\ UNCHANGED << store, store0, est, log, droneVars >>

\* seed_defaults, lines 40-41: if exists: return
SeedReturn(s) ==
    /\ sess[s].pc = "queried"
    /\ sess[s].exists
    /\ sess' = [sess EXCEPT ![s] = [pc |-> "idle", exists |-> FALSE]]
    /\ UNCHANGED << store, store0, est, log, droneVars >>

\* seed_defaults, lines 42-49: add_all(sample_rows); commit()
SeedCommit(s) ==
    /\ sess[s].pc = "queried"
    /\ ~ sess[s].exists
    /\ store' = store \o sample_rows
    /\ sess' = [sess EXCEPT ![s] = [pc |-> "idle", exists |-> FALSE]]
    /\ UNCHANGED << store0, est, log, droneVars >>

\* --------------------------------------------------------- drone_pipeline.py
\* rasterio.transform.xy(transform, row, col, offset="ul"): the map point of a
\* pixel's upper-left corner, transform * (col, row).
xy(t, row, col) == << t.a * col + t.b * row + t.c, t.d * col + t.e * row + t.f >>

Min(a, b) == IF a <= b THEN a ELSE b
Max(a, b) == IF a >= b THEN a ELSE b

\* shapely box(minx, miny, maxx, maxy)
box(minx, miny, maxx, maxy) == [minx |-> minx, miny |-> miny, maxx |-> maxx, maxy |-> maxy]

\* lines 52-57: one loop body, detector row -> polygon
BoxPolygonUnordered(t, row) ==
    LET p1 == xy(t, row.ymin, row.xmin)
        p2 == xy(t, row.ymax, row.xmax)
    IN  box(p1[1], p1[2], p2[1], p2[2])

BoxPolygon(t, row) ==
    LET p1 == xy(t, row.ymin, row.xmin)
        p2 == xy(t, row.ymax, row.xmax)
    IN  box(Min(p1[1], p2[1]), Min(p1[2], p2[2]), Max(p1[1], p2[1]), Max(p1[2], p2[2]))

\* The unit cells [i,i+1] x [j,j+1] a rectangle covers.
Cells(g) == { << i, j >> : i \in g.minx..(g.maxx - 1), j \in g.miny..(g.maxy - 1) }

RECURSIVE SumOver(_, _)
SumOver(S, k) ==
    IF S = {} THEN 0
    ELSE LET c == CHOOSE c \in S : TRUE IN (2 * c[k] + 1) + SumOver(S \ {c}, k)

\* crowns.unary_union.centroid: the area centroid of the union of the
\* rectangles, as the exact fraction (xnum/den, ynum/den).
UnionCentroid(geoms) ==
    LET U == UNION { Cells(geoms[i]) : i \in 1..Len(geoms) }
    IN  [xnum |-> SumOver(U, 1), ynum |-> SumOver(U, 2), den |-> 2 * Cardinality(U)]

\* line 64: int((centroid.x + 180) // 6) + 1
utm_zone_of(centroid) ==
    ((centroid.xnum + 180 * centroid.den) \div (6 * centroid.den)) + 1

\* line 65: 32600 + zone if centroid.y >= 0 else 32700 + zone
utm_epsg_of(centroid, zone) ==
    IF centroid.ynum >= 0 THEN 32600 + zone ELSE 32700 + zone

\* One geometry reprojected from degrees into UTM zone epsg % 100: the
\* transverse Mercator projection linearised about the zone's central
\* meridian, in kilometres (111 per degree, false easting 500, false northing
\* 10000 in the south).
Reproject(g, epsg) ==
    LET zone == epsg % 100
        lon0 == 6 * zone - 183
        north == IF epsg >= 32700 THEN 10000 ELSE 0
        X(x) == 500 + 111 * (x - lon0)
        Y(y) == north + 111 * y
    IN  box(X(g.minx), Y(g.miny), X(g.maxx), Y(g.maxy))

\* line 66: crowns.to_crs(epsg=utm_epsg), every geometry into the one CRS
to_crs_per_polygon(geoms, epsg) ==
    [i \in 1..Len(geoms) |->
        LET c == UnionCentroid(<< geoms[i] >>)
        IN  Reproject(geoms[i], utm_epsg_of(c, utm_zone_of(c)))]

to_crs(geoms, epsg) == [i \in 1..Len(geoms) |-> Reproject(geoms[i], epsg)]

RECURSIVE ISqrtBetween(_, _, _)
ISqrtBetween(n, lo, hi) ==
    IF lo >= hi THEN lo
    ELSE LET mid == (lo + hi + 1) \div 2
         IN  IF mid * mid <= n THEN ISqrtBetween(n, mid, hi)
             ELSE ISqrtBetween(n, lo, mid - 1)

\* line 69: geometry.area
Area(g) == (g.maxx - g.minx) * (g.maxy - g.miny)

\* line 70: 2.0 * sqrt(area / pi), rounded down to whole units (pi = 355/113)
CrownDiameter(area) ==
    ISqrtBetween((4 * area * 113) \div 355, 0, IF area < 46340 THEN area + 1 ELSE 46340)

NoUtm == [chosen |-> FALSE, zone |-> 0, epsg |-> 0, centroid |-> [xnum |-> 0, ynum |-> 0, den |-> 1]]
NoResult == [returned |-> FALSE, crowns_gdf |-> <<>>, source_crs |-> CRSNone]

\* lines 39-42: open the raster; CRS.from_user_input(None) raises CRSError
OpenLenient ==
    /\ pc = "start"
    /\ crs' = raster.crs
    /\ pc' = "opened"
    /\ UNCHANGED << storeVars, raster, detections_df, polygons, crowns, crowns_crs, utm,
                    result, error, calls >>

Open ==
    /\ pc = "start"
    /\ IF raster.crs.defined
       THEN /\ crs' = raster.crs
            /\ pc' = "opened"
            /\ error' = error
       ELSE /\ crs' = crs
            /\ pc' = "failed"
            /\ error' = "CRSError"
    /\ UNCHANGED << storeVars, raster, detections_df, polygons, crowns, crowns_crs, utm,
                    result, calls >>

\* lines 44-48: run the detector; None or an empty table returns an empty frame
PredictNoNoneCheck(out) ==
    /\ pc = "opened"
    /\ detections_df' = out
    /\ IF out.is_none
       THEN /\ pc' = "failed"
            /\ error' = "AttributeError"
            /\ result' = result
       ELSE /\ error' = error
            /\ IF out.rows = <<>>
               THEN /\ result' = [returned |-> TRUE, crowns_gdf |-> <<>>, source_crs |-> crs]
                    /\ pc' = "returned"
               ELSE /\ result' = result
                    /\ pc' = "predicted"
    /\ UNCHANGED << storeVars, raster, crs, polygons, crowns, crowns_crs, utm, calls >>

Predict(out) ==
    /\ pc = "opened"
    /\ detections_df' = out
    /\ IF out.is_none \/ out.rows = <<>>
       THEN /\ result' = [returned |-> TRUE, crowns_gdf |-> <<>>, source_crs |-> crs]
            /\ pc' = "returned"
       ELSE /\ result' = result
            /\ pc' = "predicted"
    /\ error' = error
    /\ UNCHANGED << storeVars, raster, crs, polygons, crowns, crowns_crs, utm, calls >>

\* lines 50-59: polygons of all rows, then the GeoDataFrame of rows + geometry
Transform ==
    /\ pc = "predicted"
    /\ LET rows == detections_df.rows
           polys == [i \in 1..Len(rows) |-> BoxPolygon(raster.transform, rows[i])]
       IN  /\ polygons' = polys
           /\ crowns' = [i \in 1..Len(rows) |->
                            [detection |-> rows[i], geometry |-> polys[i]]]
    /\ crowns_crs' = crs
    /\ pc' = "transformed"
    /\ UNCHANGED << storeVars, raster, crs, detections_df, utm, result, error, calls >>

\* lines 61-66: reproject the batch to the UTM zone of its union centroid
Normalize ==
    /\ pc = "transformed"
    /\ IF crowns_crs.defined /\ crowns_crs.is_geographic
       THEN LET centroid == UnionCentroid([i \in 1..Len(crowns) |-> crowns[i].geometry])
                utm_zone == utm_zone_of(centroid)
                utm_epsg == utm_epsg_of(centroid, utm_zone)
                geoms == to_crs([i \in 1..Len(crowns) |-> crowns[i].geometry], utm_epsg)
            IN  /\ utm' = [chosen |-> TRUE, zone |-> utm_zone, epsg |-> utm_epsg,
                           centroid |-> centroid]
                /\ crowns' = [i \in 1..Len(crowns) |->
                                 [crowns[i] EXCEPT !.geometry = geoms[i]]]
                /\ crowns_crs' = EPSG(utm_epsg)
       ELSE UNCHANGED << utm, crowns, crowns_crs >>
    /\ pc' = "normalized"
    /\ UNCHANGED << storeVars, raster, crs, detections_df, polygons, result, error, calls >>

\* lines 68-72: centroid, area, diameter; return the result
Derive ==
    /\ pc = "normalized"
    /\ LET derived == [i \in 1..Len(crowns) |->
                          LET g == crowns[i].geometry
                          IN  [detection |-> crowns[i].detection,
                               geometry |-> g,
                               centroid |-> [xnum |-> g.minx + g.maxx,
                                             ynum |-> g.miny + g.maxy, den |-> 2],
                               crown_area_m2 |-> Area(g),
                               crown_diameter_m |-> CrownDiameter(Area(g))]]
       IN  /\ crowns' = derived
           /\ result' = [returned |-> TRUE, crowns_gdf |-> derived, source_crs |-> crs]
    /\ pc' = "returned"
    /\ UNCHANGED << storeVars, raster, crs, detections_df, polygons, crowns_crs, utm,
                    error, calls >>

\* ----------------------------------------------------------- chm_pipeline.py
\* line 33: assigning the list as a column.  pandas keeps a list of None only
\* as objects; as soon as one entry is a float the column is float64 and every
\* None in it becomes NaN.
HeightColumn(stats) ==
    IF \E i \in DOMAIN stats : stats[i].kind = "float"
    THEN [i \in DOMAIN stats |-> IF stats[i].kind = "None" THEN HNaN ELSE stats[i]]
    ELSE stats

\* attach_tree_heights_from_chm(tree_boxes, chm_path): a copy of the crown
\* table with column max_height_m = zonal maximum of the CHM per polygon.
\* app.py imports it and does not call it yet ("before CHM integration"); the
\* crown table may pass through it here, so that the rows read on line 53 of
\* app.py carry every kind of max_height_m cell.
attach_tree_heights_from_chm(stats) ==
    /\ pc = "returned"
    /\ result.crowns_gdf # <<>>
    /\ DOMAIN stats = 1..Len(result.crowns_gdf)
    /\ LET tree_boxes == result.crowns_gdf
           column == HeightColumn(stats)
           with_heights == [i \in 1..Len(tree_boxes) |->
                               [max_height_m |-> column[i]] @@ tree_boxes[i]]
       IN  result' = [result EXCEPT !.crowns_gdf = with_heights]
    /\ pc' = "heights"
    /\ UNCHANGED << storeVars, raster, crs, detections_df, polygons, crowns, crowns_crs,
                    utm, error, calls >>

\* ------------------------------------------------------------------- app.py
\* r.get("max_height_m"): None when the row has no such column
GetMaxHeight(r) == IF "max_height_m" \in DOMAIN r THEN r.max_height_m ELSE HNone

\* line 53: r.get("max_height_m") or 10.0  (None and 0.0 are falsy, NaN is not)
HeightOrDefault(r) ==
    LET v == GetMaxHeight(r)
    IN  IF v.kind = "None" \/ (v.kind = "float" /\ v.v = 0) THEN HFloat(10) ELSE v

\* estimate_carbon_tonnes(d, height) as called from the page.  A NaN parameter
\* is bound as SQL NULL: every row's distance is NULL, all sort keys are
\* equal, and any row may come first.
EstimateResultsFor(rows, d, height) ==
    IF height.kind = "nan"
    THEN IF rows = <<>> THEN { 0 } ELSE { rows[i].carbon_tonnes : i \in 1..Len(rows) }
    ELSE EstimateResults(rows, d, height.v)

\* line 52: the values crowns.apply(...) may produce, row by row
RECURSIVE CarbonColumns(_, _)
CarbonColumns(rows, table) ==
    IF table = <<>> THEN { <<>> }
    ELSE LET first == EstimateResultsFor(rows, Head(table).crown_diameter_m,
                                         HeightOrDefault(Head(table)))
             rest == CarbonColumns(rows, Tail(table))
         IN  { << c >> \o r : c \in first, r \in rest }

\* drone_upload_page, lines 48-58, with the table of line 48
drone_upload_page ==
    /\ pc \in { "returned", "heights" }
    /\ LET table == result.crowns_gdf
       IN  IF table # <<>>
           THEN \E carbon \in CarbonColumns(store, table) :
                   /\ calls' = [i \in 1..Len(table) |->
                                   [row |-> i,
                                    crown_diameter_m |-> table[i].crown_diameter_m,
                                    height_m |-> HeightOrDefault(table[i]),
                                    est_carbon_t |-> carbon[i]]]
                   /\ result' = [result EXCEPT !.crowns_gdf =
                                     [i \in 1..Len(table) |->
                                         [est_carbon_t |-> carbon[i]] @@ table[i]]]
           ELSE UNCHANGED << calls, result >>
    /\ pc' = "done"
    /\ UNCHANGED << storeVars, raster, crs, detections_df, polygons, crowns, crowns_crs,
                    utm, error >>

\* ---------------------------------------------------------- specifications
DroneIdle ==
    /\ pc = "start"
    /\ crs = CRSNone
    /\ detections_df = Unassigned
    /\ polygons = <<>>
    /\ crowns = <<>>
    /\ crowns_crs = CRSNone
    /\ utm = NoUtm
    /\ result = NoResult
    /\ error = ""
    /\ calls = <<>>

\* Nothing has run yet: the table as found, all sessions before init_state.
StoreIdle ==
    /\ store = store0
    /\ sess = [s \in Sessions |-> [pc |-> "idle", exists |-> FALSE]]
    /\ est = NoEstimate
    /\ log = {}
    /\ raster = [crs |-> CRSNone, transform |-> Affine(2, 0, 100, 0, -2, 200)]
    /\ DroneIdle

\* Sessions running init_state against a database file with any content.
SeedInit ==
    /\ store0 \in InitialStores
    /\ StoreIdle

SeedNext ==
    \/ \E s \in Sessions : SeedQuery(s)
    \/ \E s \in Sessions : SeedReturn(s)
    \/ \E s \in Sessions : SeedCommit(s)

SpecSeed == SeedInit /\ [][SeedNext]_vars

\* The estimator against a reference table with any content.
EstimateInit ==
    /\ store0 \in InitialStores
    /\ StoreIdle

EstimateNext ==
    \E d \in 0..MaxDiameter, h \in 0..MaxHeight : estimate_carbon_tonnes(d, h)

SpecEstimate == EstimateInit /\ [][EstimateNext]_vars

\* One run of the drone page on one uploaded orthomosaic, after init_state has
\* seeded the store.
DroneInit ==
    /\ store0 = <<>>
    /\ store = sample_rows
    /\ sess = [s \in Sessions |-> [pc |-> "idle", exists |-> FALSE]]
    /\ est = NoEstimate
    /\ log = {}
    /\ raster \in Rasters
    /\ DroneIdle

DroneNext ==
    \/ Open
    \/ \E out \in DetectorOutputs : Predict(out)
    \/ Transform
    \/ Normalize
    \/ Derive
    \/ \E stats \in UNION { [1..n -> ZonalMax] : n \in 1..MaxBoxes } :
          attach_tree_heights_from_chm(stats)
    \/ drone_upload_page

SpecDrone == DroneInit /\ [][DroneNext]_vars

\* ------------------------------------------------------------------ claims
\* A box the pipeline's input contract accepts: xmin < xmax and ymin < ymax.
WellFormed(b) == b.xmin < b.xmax /\ b.ymin < b.ymax

SqDist(ref, d, h) ==
    (ref.crown_diameter_m - d) * (ref.crown_diameter_m - d)
        + (ref.height_m - h) * (ref.height_m - h)

\* C1 as stated: on a non-empty store the estimate is the carbon_tonnes of a
\* row whose squared Euclidean distance to the query is minimal over all rows
\* read; on the default seed table estimate(4, 8) and estimate(5, 10) are
\* both 0.12.
C1_NearestRowBoth012 ==
    (est.called /\ est.rows # <<>>) =>
        /\ \E i \in 1..Len(est.rows) :
              /\ est.rows[i].carbon_tonnes = est.result
              /\ \A j \in 1..Len(est.rows) :
                    SqDist(est.rows[i], est.d, est.h) <= SqDist(est.rows[j], est.d, est.h)
        /\ (est.rows = sample_rows /\ << est.d, est.h >> \in { << 4, 8 >>, << 5, 10 >> })
              => est.result = 12

\* C1 (amended): on a non-empty store the estimate is the carbon_tonnes of a
\* row at minimal squared Euclidean distance from the query; on the default
\* seed table estimate(4, 8) is 0.12, and estimate(5, 10), for which rows
\* (4, 8) and (6, 12) are both at distance 5, is 0.12 or 0.35.
C1_NearestRow ==
    (est.called /\ est.rows # <<>>) =>
        /\ \E i \in 1..Len(est.rows) :
              /\ est.rows[i].carbon_tonnes = est.result
              /\ \A j \in 1..Len(est.rows) :
                    SqDist(est.rows[i], est.d, est.h) <= SqDist(est.rows[j], est.d, est.h)
        /\ (est.rows = sample_rows /\ est.d = 4 /\ est.h = 8) => est.result = 12
        /\ (est.rows = sample_rows /\ est.d = 5 /\ est.h = 10) => est.result \in { 12, 35 }

\* estimate(5, 10) on the default seed table resolved to the (6, 12) row.
C1_Witness ==
    est.called /\ est.rows = sample_rows /\ est.d = 5 /\ est.h = 10 /\ est.result = 35

\* C2: an estimate against an empty store returns 0.0 and signals the
\* empty-store condition (a warning is logged).
C2_EmptyStoreSignalled ==
    (est.called /\ est.rows = <<>>) =>
        (est.result = 0 /\ "EmptyReferenceStoreWarning" \in log)

\* C9: seeding is insert-at-most-once: started on an empty store, the store
\* only ever holds nothing or exactly the four default rows, however the
\* sessions' seed_defaults calls interleave; a store found non-empty is left
\* as it was.
C9_SeedOnce ==
    /\ store0 = <<>> => store \in { <<>>, sample_rows }
    /\ store0 # <<>> => store = store0

\* C3: for a geographic raster one EPSG code is chosen for the batch, from the
\* centroid of the union of all polygons: zone = floor((lon + 180) / 6) + 1,
\* 32600 + zone for latitude >= 0 and 32700 + zone otherwise, and every
\* polygon is reprojected into that CRS.
C3_SingleUtmZone ==
    (pc \in { "normalized", "returned", "heights", "done" }
        /\ crs.is_geographic /\ polygons # <<>>) =>
        LET c == UnionCentroid(polygons)
            z == utm.zone
        IN  /\ utm.chosen
            /\ 6 * (z - 1) * c.den <= c.xnum + 180 * c.den
            /\ c.xnum + 180 * c.den < 6 * z * c.den
            /\ utm.epsg = (IF c.ynum >= 0 THEN 32600 ELSE 32700) + z
            /\ crowns_crs = EPSG(utm.epsg)
            /\ Len(crowns) = Len(polygons)
            /\ \A i \in 1..Len(polygons) :
                  crowns[i].geometry = Reproject(polygons[i], utm.epsg)

\* Two crowns around 49 N, 123 W: zone 10, EPSG 32610.
C3_Witness ==
    /\ pc = "returned"
    /\ utm.chosen
    /\ Len(crowns) = 2
    /\ utm.centroid.xnum = -123 * utm.centroid.den
    /\ utm.centroid.ynum = 49 * utm.centroid.den
    /\ utm.zone = 10
    /\ utm.epsg = 32610
    /\ crowns_crs = EPSG(32610)

\* C10: a batch whose union centroid has longitude in [-180, 180] gets a zone
\* in 1..60 and an EPSG code in 32601..32660 or 32701..32760.
C10_ZoneRange ==
    (utm.chosen
        /\ -180 * utm.centroid.den <= utm.centroid.xnum
        /\ utm.centroid.xnum <= 180 * utm.centroid.den) =>
        /\ utm.zone \in 1..60
        /\ utm.epsg \in (32601..32660) \cup (32701..32760)

\* C4: a raster without a CRS makes the run fail with a CRS error: nothing is
\* detected, transformed or measured, no CRS is substituted, and no crown
\* table with area and diameter exists without a defined CRS.
C4_UndefinedCrsFails ==
    /\ ~ raster.crs.defined =>
          /\ pc \in { "start", "failed" }
          /\ pc = "failed" => error = "CRSError"
          /\ ~ crs.defined /\ ~ crowns_crs.defined /\ ~ utm.chosen
          /\ crowns = <<>> /\ ~ result.returned
    /\ (result.returned /\ result.crowns_gdf # <<>>) => crowns_crs.defined

C4_Witness ==
    pc = "failed" /\ ~ raster.crs.defined /\ error = "CRSError" /\ crowns = <<>>

\* C5: malformed boxes (xmin >= xmax or ymin >= ymax) are not turned into
\* crown polygons; the crown table holds the well-formed boxes only.
C5_MalformedSkipped ==
    (result.returned /\ detections_df.assigned) =>
        Len(result.crowns_gdf) =
            Cardinality({ i \in 1..Len(detections_df.rows) : WellFormed(detections_df.rows[i]) })

\* C6: for a non-empty sequence of valid boxes there is exactly one polygon
\* per box, in input order, and it is the axis-aligned rectangle spanned by
\* the upper-left images of pixel corners (xmin, ymin) and (xmax, ymax).
C6_OnePolygonPerBox ==
    (pc \in { "transformed", "normalized", "returned", "heights", "done" }
        /\ detections_df.rows # <<>>
        /\ \A i \in 1..Len(detections_df.rows) : WellFormed(detections_df.rows[i])) =>
        /\ Len(polygons) = Len(detections_df.rows)
        /\ \A i \in 1..Len(polygons) :
              LET b == detections_df.rows[i]
                  p1 == xy(raster.transform, b.ymin, b.xmin)
                  p2 == xy(raster.transform, b.ymax, b.xmax)
                  g == polygons[i]
              IN  /\ g.minx <= g.maxx /\ g.miny <= g.maxy
                  /\ { g.minx, g.maxx } = { p1[1], p2[1] }
                  /\ { g.miny, g.maxy } = { p1[2], p2[2] }

\* Two different valid boxes on a north-up raster (negative row-to-y scale).
C6_Witness ==
    /\ pc = "transformed"
    /\ raster.transform.e < 0
    /\ Len(polygons) = 2
    /\ detections_df.rows[1] # detections_df.rows[2]
    /\ \A i \in 1..2 : WellFormed(detections_df.rows[i])

\* C7: when the detector returns None or an empty table the run returns an
\* empty crown table without error, and the page finishes without calling
\* the estimator.
C7_ZeroCrowns ==
    (detections_df.assigned /\ (detections_df.is_none \/ detections_df.rows = <<>>)) =>
        /\ pc \in { "returned", "done" }
        /\ error = ""
        /\ result.returned /\ result.crowns_gdf = <<>>
        /\ calls = <<>>

C7_Witness ==
    pc = "done" /\ detections_df.assigned /\ detections_df.is_none /\ calls = <<>>

\* C8: the page calls the estimator once per crown, with height 10.0 when the
\* crown's max_height_m is absent or None and with the crown's own
\* max_height_m when it is known.
C8_HeightPassed ==
    pc = "done" =>
        /\ Len(calls) = Len(result.crowns_gdf)
        /\ \A i \in 1..Len(calls) :
              LET own == GetMaxHeight(result.crowns_gdf[i])
              IN  /\ calls[i].row = i
                  /\ own.kind = "None" => calls[i].height_m = HFloat(10)
                  /\ own.kind = "float" => calls[i].height_m = own

====
